---- MODULE Spec2Model ----
(***************************************************************************)
(* The VVD campaign pipeline (vvd_campaign_pipeline.py) as a state machine.*)
(*                                                                         *)
(* df_deployments is the cached, date-filtered batch.  Every derived       *)
(* DataFrame of the script is a lazy plan over it; an action of the model  *)
(* is one evaluation of such a plan, under Spark SQL semantics:            *)
(*   - a date is its day number, datediff(a, b) = a - b;                   *)
(*   - count(c) counts the rows whose c is not null;                       *)
(*   - a RANGE frame over an ORDER BY on a DateType column offsets the     *)
(*     bounds in days;                                                     *)
(*   - rows that are equal on the ORDER BY key of a window are delivered   *)
(*     in whatever order the shuffle produced;                             *)
(*   - x / 0 is null, or the error DIVIDE_BY_ZERO when the session runs    *)
(*     with spark.sql.ansi.enabled, which the script leaves at the         *)
(*     default of the installed Spark.                                     *)
(* The two names the script uses without importing them (date_sub,         *)
(* countDistinct) are read as the pyspark.sql.functions of that name, and  *)
(* the grouping columns after the join of section 5 as the columns of the  *)
(* selected (right-hand) side.  Columns no aggregate below reads           *)
(* (CREATIVE_ID, SEGMENT, RESPONSE_DATE, CONVERSION_DATE) and the          *)
(* avg-days / stddev outputs built from them are left out, as is the       *)
(* monthly trend table.                                                    *)
(***************************************************************************)
EXTENDS Integers, Sequences, FiniteSets, Bags, TLC

\* SQL NULL.  Identifiers are >= 1 and day differences >= 0 in the model.
Null == -1

\* ---- bounds of the model ------------------------------------------------
MaxReads == 3        \* read operations per batch
MaxRuns == 2         \* runs of the pipeline over one batch
Today == 100         \* current_date() of the first run

\* ---- literals of the script ---------------------------------------------
AnalysisDays == 548
MinSampleSize == 100
SecondsPerDay == 86400

Clients == {"A", "B"}
Dates == {1, 5, 40}
Channels == {"EMAIL", "SMS"}
Campaigns == {"K1", "K2"}
Flags == {0, 1}
Tables == {"contact_frequency", "campaign_performance", "frequency_impact",
           "client_engagement", "optimal_frequency"}

VARIABLES
    df_deployments,          \* Seq of deployment rows (the cached batch)
    reads,                   \* read operations done
    current_date,            \* current_date() of the present run
    ansi_enabled,            \* spark.sql.ansi.enabled of the session
    run,                     \* 1 .. MaxRuns
    written,                 \* table -> "pending" | "ok" | "failed"
    df_contact_frequency,    \* Seq of rows, aligned with df_deployments
    df_campaign_performance, \* set of group rows
    df_frequency_impact,     \* set of group rows
    df_client_engagement,    \* set of group rows
    df_optimal_frequency,    \* set of group rows
    previous_run             \* the tables of the run before, or <<>>

vars == <<df_deployments, reads, current_date, ansi_enabled, run, written,
          df_contact_frequency, df_campaign_performance, df_frequency_impact,
          df_client_engagement, df_optimal_frequency, previous_run>>

tables == <<df_contact_frequency, df_campaign_performance, df_frequency_impact,
            df_client_engagement, df_optimal_frequency>>

\* ---- helpers --------------------------------------------------------------
Rows(df) == DOMAIN df

RECURSIVE SumValues(_, _)
SumValues(V, weight) ==
    IF V = {} THEN 0
    ELSE LET v == CHOOSE y \in V : TRUE
         IN  v * weight[v] + SumValues(V \ {v}, weight)

\* The sum of f over S, value by value.
SumOver(S, f) ==
    LET V == {f[x] : x \in S}
    IN  SumValues(V, [v \in V |-> Cardinality({x \in S : f[x] = v})])

\* A quotient n/d kept exact, in lowest terms; <<>> is the null quotient.
RECURSIVE Gcd(_, _)
Gcd(a, b) == IF b = 0 THEN a ELSE Gcd(b, a % b)

NullRat == <<>>

Rat(n, d) == LET g == Gcd(n, d) IN <<n \div g, d \div g>>

\* Spark's Divide: null on a zero divisor (the error case is DivideFails).
Divide(n, d) == IF d = 0 THEN NullRat ELSE Rat(n, d)

DivideFails(d) == ansi_enabled /\ d = 0

Times(q, k) == IF q = NullRat THEN NullRat ELSE Rat(q[1] * k, q[2])

\* ---- the deployment batch (lines 24-55) -----------------------------------
campaign_schema(t, c, k, d, ch, rf, cf, rev) ==
    [TACTIC_ID |-> t, CLIENT_ID |-> c, CAMPAIGN_ID |-> k, CAMPAIGN_NAME |-> "N",
     DEPLOYMENT_DATE |-> d, CHANNEL |-> ch, OFFER_TYPE |-> "O",
     RESPONSE_FLAG |-> rf, CONVERSION_FLAG |-> cf, REVENUE |-> rev]

analysis_end_date == current_date

analysis_start_date == analysis_end_date - AnalysisDays

between(d, lo, hi) == lo <= d /\ d <= hi

\* n CSV lines that agree on every column but TACTIC_ID, which is the given
\* one on every line (null, or a repeated id) or, for kind "fresh", a new id
\* per line.
Lines(df, r, kind, n) ==
    [i \in 1..n |->
        IF kind = "fresh" THEN [r EXCEPT !.TACTIC_ID = Len(df) + i] ELSE r]

Unwritten == \A t \in Tables : written[t] = "pending"

ReadRows(r, kind, n) ==
    /\ run = 1
    /\ Unwritten
    /\ reads < MaxReads
    /\ between(r.DEPLOYMENT_DATE, analysis_start_date, analysis_end_date)
    /\ df_deployments' = df_deployments \o Lines(df_deployments, r, kind, n)
    /\ reads' = reads + 1
    /\ UNCHANGED <<current_date, ansi_enabled, run, written, tables, previous_run>>

Init ==
    /\ df_deployments = <<>>
    /\ reads = 0
    /\ current_date = Today
    /\ ansi_enabled \in BOOLEAN
    /\ run = 1
    /\ written = [t \in Tables |-> "pending"]
    /\ df_contact_frequency = <<>>
    /\ df_campaign_performance = {}
    /\ df_frequency_impact = {}
    /\ df_client_engagement = {}
    /\ df_optimal_frequency = {}
    /\ previous_run = <<>>

\* ---- 1. contact frequency (lines 57-79) -----------------------------------
datediff(a, b) == IF a = Null \/ b = Null THEN Null ELSE a - b

\* partitionBy("CLIENT_ID"): the rows of the partition of row i.
partitionBy(df, i) == {j \in Rows(df) : df[j].CLIENT_ID = df[i].CLIENT_ID}

\* orderBy("DEPLOYMENT_DATE") within the partition: j is sorted before i.
\* The sort key is the date alone; peers keep the order of arrival.
orderBy(df, arrival, j, i) ==
    \/ df[j].DEPLOYMENT_DATE < df[i].DEPLOYMENT_DATE
    \/ /\ df[j].DEPLOYMENT_DATE = df[i].DEPLOYMENT_DATE
       /\ arrival[j] < arrival[i]

\* The orders in which the shuffle can deliver the rows, as far as a sort by
\* date sees them: arrival[i] is the place of row i among its peers (the rows
\* of its partition with its date).  Row k arrives at any place r among the
\* peers before it, which moves the later ones up.
peers(df, i) ==
    {j \in partitionBy(df, i) : df[j].DEPLOYMENT_DATE = df[i].DEPLOYMENT_DATE}

RECURSIVE arrivals(_, _)
arrivals(df, k) ==
    IF k = 0 THEN {<<>>}
    ELSE LET earlier == {j \in peers(df, k) : j < k}
         IN  {[j \in 1..k |->
                 IF j = k THEN r
                 ELSE IF j \in earlier /\ a[j] >= r THEN a[j] + 1 ELSE a[j]] :
                 a \in arrivals(df, k - 1), r \in 1..(Cardinality(earlier) + 1)}

\* rank() in place of row_number(): peers share an ordinal.
row_number_as_rank(df, arrival, i) ==
    1 + Cardinality({j \in partitionBy(df, i) :
                        df[j].DEPLOYMENT_DATE < df[i].DEPLOYMENT_DATE})

row_number(df, arrival, i) ==
    1 + Cardinality({j \in partitionBy(df, i) : orderBy(df, arrival, j, i)})

\* lag("DEPLOYMENT_DATE", 2): the row two places before.
lag_two(df, arrival, i) ==
    LET before == {j \in partitionBy(df, i) :
                      row_number(df, arrival, j) = row_number(df, arrival, i) - 2}
    IN  IF before = {} THEN Null
        ELSE df[CHOOSE j \in before : TRUE].DEPLOYMENT_DATE

\* lag("DEPLOYMENT_DATE", 1).over(window_client)
lag(df, arrival, i) ==
    LET before == {j \in partitionBy(df, i) :
                      row_number(df, arrival, j) = row_number(df, arrival, i) - 1}
    IN  IF before = {} THEN Null
        ELSE df[CHOOSE j \in before : TRUE].DEPLOYMENT_DATE

\* rangeBetween(start, end) on the DateType ordering: offsets are days.
window_client_30d == [start |-> -30 * SecondsPerDay, end |-> 0]

window_client_60d == [start |-> -60 * SecondsPerDay, end |-> 0]

window_client_90d == [start |-> -90 * SecondsPerDay, end |-> 0]

rangeBetween(df, i, w) ==
    {j \in partitionBy(df, i) :
        /\ df[i].DEPLOYMENT_DATE + w.start <= df[j].DEPLOYMENT_DATE
        /\ df[j].DEPLOYMENT_DATE <= df[i].DEPLOYMENT_DATE + w.end}

\* count("TACTIC_ID") over a set of rows
count_TACTIC_ID(df, S) == Cardinality({j \in S : df[j].TACTIC_ID # Null})

contacts_last(df, i, w) == count_TACTIC_ID(df, rangeBetween(df, i, w)) - 1

contact_frequency(df, arrival) ==
    [i \in Rows(df) |->
        [TACTIC_ID |-> df[i].TACTIC_ID,
         CLIENT_ID |-> df[i].CLIENT_ID,
         DEPLOYMENT_DATE |-> df[i].DEPLOYMENT_DATE,
         days_since_last_contact |->
             datediff(df[i].DEPLOYMENT_DATE, lag(df, arrival, i)),
         contact_number |-> row_number(df, arrival, i),
         contacts_last_30d |-> contacts_last(df, i, window_client_30d),
         contacts_last_60d |-> contacts_last(df, i, window_client_60d),
         contacts_last_90d |-> contacts_last(df, i, window_client_90d)]]

\* One evaluation of df_contact_frequency.
ContactFrequency ==
    /\ written["contact_frequency"] = "pending"
    /\ \E arrival \in arrivals(df_deployments, Len(df_deployments)) :
          df_contact_frequency' = contact_frequency(df_deployments, arrival)
    /\ written' = [written EXCEPT !["contact_frequency"] = "ok"]
    /\ UNCHANGED <<df_deployments, reads, current_date, ansi_enabled, run,
                   df_campaign_performance, df_frequency_impact,
                   df_client_engagement, df_optimal_frequency, previous_run>>

\* ---- 2. campaign performance (lines 81-109) -----------------------------
campaign_key(r) == <<r.CAMPAIGN_ID, r.CAMPAIGN_NAME, r.CHANNEL, r.OFFER_TYPE>>

\* groupBy: by_key[i] is the grouping key of row i.
campaign_keys(df) == [i \in Rows(df) |-> campaign_key(df[i])]

group(by_key, k) == {i \in DOMAIN by_key : by_key[i] = k}

keys(by_key) == {by_key[i] : i \in DOMAIN by_key}

sum(df, S, column) == SumOver(S, [i \in Rows(df) |-> df[i][column]])

countDistinct_CLIENT_ID(df, S) == Cardinality({df[i].CLIENT_ID : i \in S})

\* avg(column): the column is never null in the model, so over every row of S
avg(df, S, column) == Rat(sum(df, S, column), Cardinality(S))

campaign_performance(df) ==
    {LET S == group(campaign_keys(df), k)
     IN  [CAMPAIGN_ID |-> k[1], CAMPAIGN_NAME |-> k[2], CHANNEL |-> k[3],
          OFFER_TYPE |-> k[4],
          total_deployments |-> count_TACTIC_ID(df, S),
          unique_clients |-> countDistinct_CLIENT_ID(df, S),
          total_responses |-> sum(df, S, "RESPONSE_FLAG"),
          total_conversions |-> sum(df, S, "CONVERSION_FLAG"),
          total_revenue |-> sum(df, S, "REVENUE"),
          avg_revenue_per_deployment |-> avg(df, S, "REVENUE"),
          response_rate |->
              Times(Divide(sum(df, S, "RESPONSE_FLAG"), count_TACTIC_ID(df, S)), 100),
          conversion_rate |->
              Times(Divide(sum(df, S, "CONVERSION_FLAG"), count_TACTIC_ID(df, S)), 100),
          response_to_conversion_rate |->
              Times(Divide(sum(df, S, "CONVERSION_FLAG"),
                           sum(df, S, "RESPONSE_FLAG")), 100)] :
     k \in keys(campaign_keys(df))}

campaign_performance_fails(df) ==
    \E k \in keys(campaign_keys(df)) :
        LET S == group(campaign_keys(df), k)
        IN  \/ DivideFails(count_TACTIC_ID(df, S))
            \/ DivideFails(sum(df, S, "RESPONSE_FLAG"))

\* The write of line 190: the first job of the script.
CampaignPerformance ==
    /\ written["campaign_performance"] = "pending"
    /\ IF campaign_performance_fails(df_deployments)
       THEN /\ written' = [written EXCEPT !["campaign_performance"] = "failed"]
            /\ UNCHANGED df_campaign_performance
       ELSE /\ written' = [written EXCEPT !["campaign_performance"] = "ok"]
            /\ df_campaign_performance' = campaign_performance(df_deployments)
    /\ UNCHANGED <<df_deployments, reads, current_date, ansi_enabled, run,
                   df_contact_frequency, df_frequency_impact,
                   df_client_engagement, df_optimal_frequency, previous_run>>

\* ---- 3. contact frequency impact (lines 111-121) --------------------------
\* The plan of df_contact_frequency is evaluated again by each job that reads
\* it; contacts_last_30d does not depend on the order of peers.
contacts_last_30d(df, i) == contacts_last(df, i, window_client_30d)

frequency_impact(df) ==
    {LET S == {i \in Rows(df) : contacts_last_30d(df, i) = b}
     IN  [contacts_last_30d |-> b,
          deployments_count |-> count_TACTIC_ID(df, S),
          avg_response_rate |-> avg(df, S, "RESPONSE_FLAG"),
          avg_conversion_rate |-> avg(df, S, "CONVERSION_FLAG"),
          avg_revenue |-> avg(df, S, "REVENUE")] :
     b \in {contacts_last_30d(df, i) : i \in Rows(df)}}

\* The write of line 191.
FrequencyImpact ==
    /\ written["campaign_performance"] = "ok"
    /\ written["frequency_impact"] = "pending"
    /\ written' = [written EXCEPT !["frequency_impact"] = "ok"]
    /\ df_frequency_impact' = frequency_impact(df_deployments)
    /\ UNCHANGED <<df_deployments, reads, current_date, ansi_enabled, run,
                   df_contact_frequency, df_campaign_performance,
                   df_client_engagement, df_optimal_frequency, previous_run>>

\* ---- 4. client engagement (lines 123-147) ----------------------------------
client_key(r) == r.CLIENT_ID

client_keys(df) == [i \in Rows(df) |-> client_key(df[i])]

max(df, S, column) == CHOOSE m \in {df[i][column] : i \in S} :
                          \A i \in S : df[i][column] <= m

min(df, S, column) == CHOOSE m \in {df[i][column] : i \in S} :
                          \A i \in S : m <= df[i][column]

\* response_rate * 0.3 + conversion_rate * 0.5 + (total_revenue / total_contacts) * 0.2,
\* the three quotients over the same total_contacts
engagement_score(responses, conversions, revenue, contacts) ==
    IF contacts = 0 THEN NullRat
    ELSE Rat(3 * responses + 5 * conversions + 2 * revenue, 10 * contacts)

client_engagement(df, today) ==
    {LET S == group(client_keys(df), c)
     IN  [CLIENT_ID |-> c,
          total_contacts |-> count_TACTIC_ID(df, S),
          total_responses |-> sum(df, S, "RESPONSE_FLAG"),
          total_conversions |-> sum(df, S, "CONVERSION_FLAG"),
          total_revenue |-> sum(df, S, "REVENUE"),
          last_contact_date |-> max(df, S, "DEPLOYMENT_DATE"),
          first_contact_date |-> min(df, S, "DEPLOYMENT_DATE"),
          response_rate |->
              Divide(sum(df, S, "RESPONSE_FLAG"), count_TACTIC_ID(df, S)),
          conversion_rate |->
              Divide(sum(df, S, "CONVERSION_FLAG"), count_TACTIC_ID(df, S)),
          days_since_last_contact |->
              datediff(today, max(df, S, "DEPLOYMENT_DATE")),
          customer_lifetime_days |->
              datediff(max(df, S, "DEPLOYMENT_DATE"), min(df, S, "DEPLOYMENT_DATE")),
          engagement_score |->
              engagement_score(sum(df, S, "RESPONSE_FLAG"),
                               sum(df, S, "CONVERSION_FLAG"),
                               sum(df, S, "REVENUE"), count_TACTIC_ID(df, S))] :
     c \in keys(client_keys(df))}

client_engagement_fails(df) ==
    \E c \in keys(client_keys(df)) :
        DivideFails(count_TACTIC_ID(df, group(client_keys(df), c)))

\* The write of line 192.
ClientEngagement ==
    /\ written["frequency_impact"] = "ok"
    /\ written["client_engagement"] = "pending"
    /\ IF client_engagement_fails(df_deployments)
       THEN /\ written' = [written EXCEPT !["client_engagement"] = "failed"]
            /\ UNCHANGED df_client_engagement
       ELSE /\ written' = [written EXCEPT !["client_engagement"] = "ok"]
            /\ df_client_engagement' =
                   client_engagement(df_deployments, current_date)
    /\ UNCHANGED <<df_deployments, reads, current_date, ansi_enabled, run,
                   df_contact_frequency, df_campaign_performance,
                   df_frequency_impact, df_optimal_frequency, previous_run>>

\* ---- 5. optimal contact frequency (lines 149-163) --------------------------
\* join(..., on="TACTIC_ID"): an inner equi-join; a null key matches nothing.
\* matches(df, i) are the source rows joined to row i of df_contact_frequency.
matches(df, i) ==
    {j \in Rows(df) : df[i].TACTIC_ID # Null /\ df[j].TACTIC_ID = df[i].TACTIC_ID}

join(df) == UNION {{<<i, j>> : j \in matches(df, i)} : i \in Rows(df)}

\* groupBy("CHANNEL", "contacts_last_30d") of the joined rows, then agg(...)
optimal_frequency_groups(df) ==
    LET c30 == [i \in Rows(df) |-> contacts_last_30d(df, i)]
        J == join(df)
        key(p) == <<df[p[2]].CHANNEL, c30[p[1]]>>
    IN  {LET S == {p \in J : key(p) = k}
         IN  [CHANNEL |-> k[1], contacts_last_30d |-> k[2],
              sample_size |-> Cardinality(S),
              response_rate |->
                  Rat(SumOver(S, [p \in J |-> df[p[2]].RESPONSE_FLAG]), Cardinality(S)),
              conversion_rate |->
                  Rat(SumOver(S, [p \in J |-> df[p[2]].CONVERSION_FLAG]), Cardinality(S)),
              avg_revenue |->
                  Rat(SumOver(S, [p \in J |-> df[p[2]].REVENUE]), Cardinality(S))] :
         k \in {key(p) : p \in J}}

\* .filter(col("sample_size") >= 100)
significant(g) == g.sample_size >= MinSampleSize

optimal_frequency(df) == {g \in optimal_frequency_groups(df) : significant(g)}

\* The write of line 193.
OptimalFrequency ==
    /\ written["client_engagement"] = "ok"
    /\ written["optimal_frequency"] = "pending"
    /\ written' = [written EXCEPT !["optimal_frequency"] = "ok"]
    /\ df_optimal_frequency' = optimal_frequency(df_deployments)
    /\ UNCHANGED <<df_deployments, reads, current_date, ansi_enabled, run,
                   df_contact_frequency, df_campaign_performance,
                   df_frequency_impact, df_client_engagement, previous_run>>

\* ---- a second run over the same batch ---------------------------------------
Finished ==
    \/ written["optimal_frequency"] # "pending"
    \/ \E t \in Tables : written[t] = "failed"

\* The script is started again, the same day or the next, on the same file.
Rerun ==
    /\ run < MaxRuns
    /\ Finished
    /\ run' = run + 1
    /\ previous_run' = [written |-> written, tables |-> tables,
                        df_deployments |-> df_deployments]
    /\ \E d \in {current_date, current_date + 1} :
          /\ current_date' = d
          /\ df_deployments' =
                 SelectSeq(df_deployments,
                           LAMBDA r : between(r.DEPLOYMENT_DATE, d - AnalysisDays, d))
    /\ written' = [t \in Tables |-> "pending"]
    /\ df_contact_frequency' = <<>>
    /\ df_campaign_performance' = {}
    /\ df_frequency_impact' = {}
    /\ df_client_engagement' = {}
    /\ df_optimal_frequency' = {}
    /\ UNCHANGED <<reads, ansi_enabled>>

\* ---- specifications ---------------------------------------------------------
\* Rows that vary the columns the window engine reads.
ReadWindowRow ==
    \E t \in {Null, 1}, c \in Clients, d \in Dates :
        ReadRows(campaign_schema(t, c, "K1", d, "EMAIL", 0, 0, 0),
                 IF t = Null THEN "null" ELSE "fresh", 1)

NextWindow == ReadWindowRow \/ ContactFrequency

SpecWindow == Init /\ [][NextWindow]_vars

\* Rows that vary the columns the campaign aggregate reads.
ReadCampaignRow ==
    \E t \in {Null, 1}, k \in Campaigns, rf \in Flags, cf \in Flags :
        ReadRows(campaign_schema(t, "A", k, 1, "EMAIL", rf, cf, 10 * cf),
                 IF t = Null THEN "null" ELSE "fresh", 1)

NextCampaign == ReadCampaignRow \/ CampaignPerformance

SpecCampaign == Init /\ [][NextCampaign]_vars

\* A bulk file of one client's same-day contacts, then single rows whose
\* TACTIC_ID is new, missing or a repeat of the first.
CohortSizes == {MinSampleSize - 1, MinSampleSize}

ReadCohort ==
    \E n \in CohortSizes :
        /\ df_deployments = <<>>
        /\ ReadRows(campaign_schema(1, "A", "K1", 1, "EMAIL", 0, 0, 0), "fresh", n)

ReadOptimalRow ==
    \E kind \in {"fresh", "null", "repeat"}, ch \in Channels :
        ReadRows(campaign_schema(IF kind = "null" THEN Null ELSE 1,
                                 "A", "K1", 1, ch, 0, 0, 0), kind, 1)

NextOptimal ==
    \/ ReadCohort
    \/ ReadOptimalRow
    \/ CampaignPerformance
    \/ FrequencyImpact
    \/ ClientEngagement
    \/ OptimalFrequency

SpecOptimal == Init /\ [][NextOptimal]_vars

\* The whole script, run and run again.
ReadRow ==
    \E c \in Clients, d \in {1, 5} :
        ReadRows(campaign_schema(1, c, "K1", d, "EMAIL", 0, 0, 0), "fresh", 1)

Next ==
    \/ ReadRow
    \/ ContactFrequency
    \/ CampaignPerformance
    \/ FrequencyImpact
    \/ ClientEngagement
    \/ OptimalFrequency
    \/ Rerun

Spec == Init /\ [][Next]_vars

\* ---- the claims --------------------------------------------------------------
Evaluated(t) == written[t] = "ok"

cf == df_contact_frequency

client_rows(i) == {j \in Rows(cf) : cf[j].CLIENT_ID = cf[i].CLIENT_ID}

\* Every record of the batch carries a TACTIC_ID.
AllKeyed == \A i \in Rows(df_deployments) : df_deployments[i].TACTIC_ID # Null

\* The records of the client of i deployed in the N days up to i's date.
in_last_days(i, N) ==
    {j \in client_rows(i) :
        /\ cf[i].DEPLOYMENT_DATE - N <= cf[j].DEPLOYMENT_DATE
        /\ cf[j].DEPLOYMENT_DATE <= cf[i].DEPLOYMENT_DATE}

\* C1: contacts_last_Nd of a record is the number of records of its client
\* deployed in the calendar days [date - N, date], minus one for the record
\* itself, for N = 30, 60, 90.  Stated for batches in which every record has
\* a TACTIC_ID, where counting records and counting TACTIC_IDs agree.
C1_ContactsLastNd ==
    (Evaluated("contact_frequency") /\ AllKeyed) =>
        \A i \in Rows(cf) :
            /\ cf[i].contacts_last_30d = Cardinality(in_last_days(i, 30)) - 1
            /\ cf[i].contacts_last_60d = Cardinality(in_last_days(i, 60)) - 1
            /\ cf[i].contacts_last_90d = Cardinality(in_last_days(i, 90)) - 1

\* C2: for every record, for any input batch,
\* 0 <= contacts_last_30d <= contacts_last_60d <= contacts_last_90d.
C2_WindowsMonotone ==
    Evaluated("contact_frequency") =>
        \A i \in Rows(cf) :
            /\ 0 <= cf[i].contacts_last_30d
            /\ cf[i].contacts_last_30d <= cf[i].contacts_last_60d
            /\ cf[i].contacts_last_60d <= cf[i].contacts_last_90d

\* C3: the contact_numbers of a client's records are exactly 1..N, N the
\* number of the client's records, with no gap and no repeat, also when
\* records of the client share a deployment date.
C3_OrdinalsContiguous ==
    Evaluated("contact_frequency") =>
        \A i \in Rows(cf) :
            /\ {cf[j].contact_number : j \in client_rows(i)}
                   = 1..Cardinality(client_rows(i))
            /\ \A j \in client_rows(i) :
                   cf[j].contact_number = cf[i].contact_number => j = i

\* A client with three records, two of them on one date, has been numbered.
C3_Witness ==
    /\ Evaluated("contact_frequency")
    /\ \E i \in Rows(cf) :
          /\ Cardinality(client_rows(i)) = 3
          /\ \E j \in client_rows(i) :
                j # i /\ cf[j].DEPLOYMENT_DATE = cf[i].DEPLOYMENT_DATE

\* C4: of two records of one client with the same deployment date, the one
\* with the smaller tactic_id has the smaller contact_number.
C4_TieBreakByTactic ==
    Evaluated("contact_frequency") =>
        \A i \in Rows(cf) : \A j \in client_rows(i) :
            (/\ cf[j].DEPLOYMENT_DATE = cf[i].DEPLOYMENT_DATE
             /\ cf[i].TACTIC_ID # Null
             /\ cf[j].TACTIC_ID # Null
             /\ cf[i].TACTIC_ID < cf[j].TACTIC_ID)
                => cf[i].contact_number < cf[j].contact_number

\* A table as the bag of its rows.
AsBag(t) ==
    IF DOMAIN t = {} THEN EmptyBag
    ELSE [r \in {t[i] : i \in DOMAIN t} |-> Cardinality({i \in DOMAIN t : t[i] = r})]

\* C5: two runs of the pipeline over an identical batch yield identical
\* tables: each table evaluated in both runs has the same rows.
C5_Idempotent ==
    (run > 1 /\ previous_run.df_deployments = df_deployments) =>
        /\ (Evaluated("contact_frequency")
              /\ previous_run.written["contact_frequency"] = "ok")
               => AsBag(df_contact_frequency) = AsBag(previous_run.tables[1])
        /\ (Evaluated("campaign_performance")
              /\ previous_run.written["campaign_performance"] = "ok")
               => df_campaign_performance = previous_run.tables[2]
        /\ (Evaluated("frequency_impact")
              /\ previous_run.written["frequency_impact"] = "ok")
               => df_frequency_impact = previous_run.tables[3]
        /\ (Evaluated("client_engagement")
              /\ previous_run.written["client_engagement"] = "ok")
               => df_client_engagement = previous_run.tables[4]
        /\ (Evaluated("optimal_frequency")
              /\ previous_run.written["optimal_frequency"] = "ok")
               => df_optimal_frequency = previous_run.tables[5]

\* The input records of the group (channel, contacts_last_30d) = (ch, b).
input_group(ch, b) ==
    {i \in Rows(df_deployments) :
        /\ df_deployments[i].CHANNEL = ch
        /\ contacts_last_30d(df_deployments, i) = b}

\* C6: the optimal-frequency output has exactly the (channel,
\* contacts_last_30d) groups of at least 100 input records, each with
\* sample_size the number of input records of the group.
C6_SignificantGroups ==
    Evaluated("optimal_frequency") =>
        {<<g.CHANNEL, g.contacts_last_30d, g.sample_size>> : g \in df_optimal_frequency}
          = {<<ch, b, Cardinality(input_group(ch, b))>> :
                <<ch, b>> \in {k \in {<<df_deployments[i].CHANNEL,
                                        contacts_last_30d(df_deployments, i)>> :
                                          i \in Rows(df_deployments)} :
                                 Cardinality(input_group(k[1], k[2])) >= 100}}

\* C7: when the optimal-frequency join has run without an error, every
\* window record was matched with exactly one source record (otherwise the
\* join fails with IntegrityError).
C7_JoinOneToOne ==
    Evaluated("optimal_frequency") =>
        \A i \in Rows(df_deployments) : Cardinality(matches(df_deployments, i)) = 1

InPercent(q) == q # NullRat /\ 0 <= q[1] /\ q[1] <= 100 * q[2]

\* C8: the campaign aggregate never ends in a divide-by-zero fault; in every
\* group response_rate and conversion_rate lie in [0, 100], and
\* response_to_conversion_rate is null when total_responses is 0.
C8_CampaignRates ==
    /\ written["campaign_performance"] # "failed"
    /\ Evaluated("campaign_performance") =>
          \A g \in df_campaign_performance :
              /\ InPercent(g.response_rate)
              /\ InPercent(g.conversion_rate)
              /\ g.total_responses = 0 => g.response_to_conversion_rate = NullRat

\* C9: the record of a client with exactly one record has
\* days_since_last_contact null and all three window counts 0.
C9_SingleContact ==
    Evaluated("contact_frequency") =>
        \A i \in Rows(cf) :
            Cardinality(client_rows(i)) = 1 =>
                /\ cf[i].days_since_last_contact = Null
                /\ cf[i].contacts_last_30d = 0
                /\ cf[i].contacts_last_60d = 0
                /\ cf[i].contacts_last_90d = 0

\* C10: days_since_last_contact is null exactly on the record numbered 1 of
\* its client; on any other record it is the number of days, >= 0, from the
\* date of the client's record numbered one less.
C10_DaysSinceLast ==
    Evaluated("contact_frequency") =>
        \A i \in Rows(cf) :
            /\ cf[i].days_since_last_contact = Null <=> cf[i].contact_number = 1
            /\ cf[i].contact_number > 1 =>
                  /\ cf[i].days_since_last_contact >= 0
                  /\ \E j \in client_rows(i) :
                        cf[j].contact_number = cf[i].contact_number - 1
                  /\ \A j \in client_rows(i) :
                        cf[j].contact_number = cf[i].contact_number - 1 =>
                            cf[i].days_since_last_contact =
                                cf[i].DEPLOYMENT_DATE - cf[j].DEPLOYMENT_DATE

\* A client's second record has been dated from its first while a record of
\* another client lies between the two, and a same-day pair shows 0 days.
C10_Witness ==
    /\ Evaluated("contact_frequency")
    /\ \E i \in Rows(cf) : \E j \in client_rows(i) : \E k \in Rows(cf) \ client_rows(i) :
          /\ cf[i].contact_number = cf[j].contact_number + 1
          /\ cf[j].DEPLOYMENT_DATE < cf[k].DEPLOYMENT_DATE
          /\ cf[k].DEPLOYMENT_DATE < cf[i].DEPLOYMENT_DATE
          /\ cf[i].days_since_last_contact > 0

====
